---- MODULE Spec2Model ----
(***************************************************************************)
(* Chomping Glass solver: board model, legality generator, memoizing       *)
(* evaluator, state enumerator and the way the command line client drives  *)
(* them (crates/solver-core/src/lib.rs, crates/cli/src/main.rs).           *)
(*                                                                         *)
(* Solver::evaluate is a recursive function.  It is modelled as the stack  *)
(* machine the compiled code runs: one frame per active call, each frame   *)
(* holding the state, its legal moves, the position of the `for mv in      *)
(* moves` loop and the winning moves collected so far.  A step runs the    *)
(* topmost call up to its next recursive call that misses the cache        *)
(* (EvaluateDescend) or up to its return (EvaluateReturn).                 *)
(***************************************************************************)
EXTENDS Integers, Sequences, FiniteSets, TLC

\* lib.rs:7
ROWS == 5
\* lib.rs:9
COLS == 8

\* Move::new (lib.rs:25-27): zero-indexed coordinates
Move(row, col) == [row |-> row, col |-> col]

\* Mutant of POISON: row and column swapped
POISON_Swapped == Move(COLS - 1, ROWS - 1)

\* lib.rs:12-15
POISON == Move(ROWS - 1, COLS - 1)

\* BoardState::new (lib.rs:46-50): heights = [-1; COLS].  A board is the
\* sequence of its COLS heights; the height of the zero-indexed column col
\* is its element col + 1.
NewBoard == [i \in 1..COLS |-> -1]

\* self.heights[col] (lib.rs:41, 60-62) for a zero-indexed column
Height(state, col) == state[col + 1]

\* The elements of a sequence (Vec iteration)
Range(seq) == {seq[i] : i \in 1..Len(seq)}

\* Mutant of apply_move: only the chosen column is raised
apply_move_OnlyColumn(state, mv) ==
  [i \in 1..COLS |->
     IF i - 1 = mv.col /\ mv.row > state[i] THEN mv.row ELSE state[i]]

\* BoardState::apply_move (lib.rs:66-76): columns 0..=mv.col are raised to
\* mv.row where they are lower; the other columns are copied.
apply_move(state, mv) ==
  [i \in 1..COLS |->
     IF i - 1 <= mv.col /\ mv.row > state[i] THEN mv.row ELSE state[i]]

\* Mutant of ColumnMoves: the poison cell is not skipped
RECURSIVE ColumnMoves_NoPoisonSkip(_, _)
ColumnMoves_NoPoisonSkip(col, row) ==
  IF row >= ROWS THEN <<>>
  ELSE <<Move(row, col)>> \o ColumnMoves_NoPoisonSkip(col, row + 1)

\* Mutant of ColumnMoves: the loop stops one row early
RECURSIVE ColumnMoves_StopEarly(_, _)
ColumnMoves_StopEarly(col, row) ==
  IF row >= ROWS - 1 THEN <<>>
  ELSE (IF Move(row, col) = POISON THEN <<>> ELSE <<Move(row, col)>>)
       \o ColumnMoves_StopEarly(col, row + 1)

\* lib.rs:83-89, the inner loop `for row in (top_eaten + 1)..ROWS` of one
\* column, from `row` on: every cell but the poison one is pushed.
RECURSIVE ColumnMoves(_, _)
ColumnMoves(col, row) ==
  IF row >= ROWS THEN <<>>
  ELSE (IF Move(row, col) = POISON THEN <<>> ELSE <<Move(row, col)>>)
       \o ColumnMoves(col, row + 1)

\* lib.rs:81-90, the outer loop `for col in 0..COLS`, from `col` on
RECURSIVE MovesFrom(_, _)
MovesFrom(state, col) ==
  IF col >= COLS THEN <<>>
  ELSE ColumnMoves(col, Height(state, col) + 1) \o MovesFrom(state, col + 1)

\* BoardState::legal_moves (lib.rs:79-92)
legal_moves(state) == MovesFrom(state, 0)

\* BoardState::is_terminal (lib.rs:94-96)
is_terminal(state) == legal_moves(state) = <<>>

(***************************************************************************)
(* Solver                                                                  *)
(***************************************************************************)

\* Solver::new (lib.rs:138-140): an empty HashMap
EmptyCache == <<>>

\* Mutant of CacheInsert: the insert writes the new value over every entry
CacheInsert_Clobber(tbl, state, eval) ==
  [s \in DOMAIN tbl \cup {state} |-> eval]

\* HashMap::insert as used at lib.rs:153 and lib.rs:169 (an existing entry
\* for the key would be replaced)
CacheInsert(tbl, state, eval) == (state :> eval) @@ tbl

\* Mutant of TerminalEvaluation: the side without a move is said to win
TerminalEvaluation_Winning == [winning |-> TRUE, winning_moves |-> <<>>]

\* lib.rs:149-152: the Evaluation of a state without legal moves
TerminalEvaluation == [winning |-> FALSE, winning_moves |-> <<>>]

\* lib.rs:165-168: the Evaluation built from the collected winning moves
Evaluation(winning_moves) ==
  [winning |-> winning_moves # <<>>, winning_moves |-> winning_moves]

\* Mutant of OpponentLoses: the negation is missing
OpponentLoses_NotNegated(eval) == eval.winning

\* lib.rs:160: the test `!self.evaluate(next_state).winning` on the
\* Evaluation the recursive call returned
OpponentLoses(eval) == ~eval.winning

\* lib.rs:142-147 and 157: the frame of a call that missed the cache, about
\* to run its loop at the first move
Frame(state) ==
  [state |-> state, moves |-> legal_moves(state), next |-> 1,
   winning_moves |-> <<>>]

\* lib.rs:159: the successor the loop of frame f evaluates at position j
Successor(f, j) == apply_move(f.state, f.moves[j])

\* lib.rs:143 seen from the loop of frame f: the positions from f.next on
\* whose recursive call does not return at once from the cache
Misses(tbl, f) ==
  {j \in f.next..Len(f.moves) : Successor(f, j) \notin DOMAIN tbl}

\* Mutant of CachedWinners: a move whose successor comes from the cache is
\* never pushed
CachedWinners_Dropped(tbl, f, upto) == <<>>

\* lib.rs:158-163 for the loop positions f.next..(upto - 1), all of which
\* return from the cache (lib.rs:143-145): the moves pushed, in loop order
CachedWinners(tbl, f, upto) ==
  SelectSeq(SubSeq(f.moves, f.next, upto - 1),
            LAMBDA mv : OpponentLoses(tbl[apply_move(f.state, mv)]))

\* Mutant of Resume: the move is put in front of those collected so far
Resume_Prepend(p, eval) ==
  [p EXCEPT !.winning_moves =
              IF OpponentLoses(eval) THEN <<p.moves[p.next]>> \o @ ELSE @,
            !.next = p.next + 1]

\* lib.rs:160-162 in the caller's frame p when the recursive call made at
\* position p.next returns eval: push the move or not, then go on
Resume(p, eval) ==
  [p EXCEPT !.winning_moves =
              IF OpponentLoses(eval) THEN Append(@, p.moves[p.next]) ELSE @,
            !.next = p.next + 1]

\* Mutant of CacheGet: the clone of a cached entry loses its moves
CacheGet_Stale(tbl, state) == [tbl[state] EXCEPT !.winning_moves = <<>>]

\* lib.rs:143-144: `self.cache.get(&state)` found an entry; its clone
CacheGet(tbl, state) == tbl[state]

\* Solver::evaluate (lib.rs:142-171) as the function it is, from the cache
\* before the call and the state to the cache after it and the Evaluation
\* returned.  EvaluateLoop is the loop `for mv in moves` (lib.rs:158-163)
\* from position i on, the cache handed from each recursive call to the
\* next.
RECURSIVE evaluate(_, _)
RECURSIVE EvaluateLoop(_, _, _, _, _)
evaluate(tbl, state) ==
  IF state \in DOMAIN tbl
  THEN [cache |-> tbl, eval |-> CacheGet(tbl, state)]
  ELSE LET moves == legal_moves(state)
       IN IF moves = <<>>
          THEN [cache |-> CacheInsert(tbl, state, TerminalEvaluation),
                eval |-> TerminalEvaluation]
          ELSE LET done == EvaluateLoop(tbl, state, moves, 1, <<>>)
                   eval == Evaluation(done.winning_moves)
               IN [cache |-> CacheInsert(done.cache, state, eval),
                   eval |-> eval]

EvaluateLoop(tbl, state, moves, i, winning_moves) ==
  IF i > Len(moves)
  THEN [cache |-> tbl, winning_moves |-> winning_moves]
  ELSE LET sub == evaluate(tbl, apply_move(state, moves[i]))
       IN EvaluateLoop(sub.cache, state, moves, i + 1,
                       IF OpponentLoses(sub.eval)
                       THEN Append(winning_moves, moves[i])
                       ELSE winning_moves)

\* lib.rs:200, `format!("{:?}", state.heights)`: the Debug text of the
\* height array, "[h0, h1, ..., h7]"
RECURSIVE HeightsText(_, _)
HeightsText(state, col) ==
  IF col >= COLS THEN ""
  ELSE (IF col = 0 THEN "" ELSE ", ") \o ToString(Height(state, col))
       \o HeightsText(state, col + 1)

HeightsKey(state) == "[" \o HeightsText(state, 0) \o "]"

(***************************************************************************)
(* enumerate_states                                                        *)
(***************************************************************************)

\* Mutant of Visit: every successor is queued, seen before or not
RECURSIVE Visit_NoSeenCheck(_, _, _, _, _)
Visit_NoSeenCheck(sn, fresh, state, moves, i) ==
  IF i > Len(moves) THEN fresh
  ELSE Visit_NoSeenCheck(sn, Append(fresh, apply_move(state, moves[i])),
                         state, moves, i + 1)

\* lib.rs:183-188: the loop over the legal moves of the popped state, from
\* position i on.  `sn` is the seen set when the state was popped and
\* `fresh` the states this loop has inserted so far, in order: seen.insert
\* (lib.rs:185) returns true for a state in neither.
RECURSIVE Visit(_, _, _, _, _)
Visit(sn, fresh, state, moves, i) ==
  IF i > Len(moves) THEN fresh
  ELSE LET next == apply_move(state, moves[i])
       IN IF next \notin sn /\ next \notin Range(fresh)
          THEN Visit(sn, Append(fresh, next), state, moves, i + 1)
          ELSE Visit(sn, fresh, state, moves, i + 1)

(***************************************************************************)
(* State                                                                   *)
(***************************************************************************)
VARIABLES
  board,      \* the BoardState of the game in progress (heights per column)
  turn,       \* who moves next: "player" (the solver's user) or "opponent"
  guided,     \* TRUE once the player has taken a move out of winning_moves
  cache,      \* Solver.cache: BoardState -> Evaluation
  stack,      \* the active calls of Solver::evaluate, innermost last
  returned,   \* <<>> or <<[state, eval]>>: what the last call returned
  seen,       \* enumerate_states: the HashSet `seen`
  queue,      \* enumerate_states: the VecDeque `queue`
  states,     \* <<>> or <<S>>: the collection enumerate_states returned
  table,      \* export_policy_json: the BTreeMap `table`, key -> Evaluation
  build,      \* the build profile the binary was compiled with
  input,      \* --state as split at the commas: a sequence of texts
  args,       \* --row and --col: <<row, col>>, or <<>> when not given
  chosen,     \* <<>> or <<mv>>: the Move the command line call settled on
  outcome     \* where a command line call stands, or how it ended

vars ==
  <<board, turn, guided, cache, stack, returned, seen, queue, states, table,
    build, input, args, chosen, outcome>>

gameVars == <<board, turn, guided>>
solverVars == <<cache, stack, returned>>
enumVars == <<seen, queue, states>>
policyVars == <<table>>
cliVars == <<build, input, args, chosen, outcome>>

\* The game and the session of one Solver: a fresh board, either side to
\* move first, a new Solver, no call in progress, no enumeration running.
Init ==
  /\ board = NewBoard
  /\ turn \in {"player", "opponent"}
  /\ guided = FALSE
  /\ cache = EmptyCache
  /\ stack = <<>>
  /\ returned = <<>>
  /\ seen = {}
  /\ queue = <<>>
  /\ states = <<>>
  /\ table = <<>>
  /\ build = "release"
  /\ input = <<>>
  /\ args = <<>>
  /\ chosen = <<>>
  /\ outcome = "idle"

\* The solver is idle and has been consulted: the session opens as
\* tests::unique_winning_opening does, by evaluating the fresh board before
\* a move is made.
SolverReady == stack = <<>> /\ cache # EmptyCache

\* solver.evaluate(state) called from outside (lib.rs:215, main.rs:114,
\* main.rs:163) on the current board: returns the cached Evaluation
\* (lib.rs:143-145) or enters the computation.
EvaluateCall ==
  /\ stack = <<>>
  /\ returned = <<>>
  /\ IF board \in DOMAIN cache
     THEN /\ returned' = <<[state |-> board, eval |-> cache[board]]>>
          /\ stack' = stack
     ELSE /\ stack' = <<Frame(board)>>
          /\ returned' = returned
  /\ UNCHANGED <<cache, gameVars, enumVars, policyVars, cliVars>>

\* The innermost call runs its loop (lib.rs:158-163) up to the first move
\* whose successor is not cached and calls evaluate on it (lib.rs:160).
EvaluateDescend ==
  /\ stack # <<>>
  /\ LET f == stack[Len(stack)]
         missing == Misses(cache, f)
     IN /\ missing # {}
        /\ LET k == CHOOSE j \in missing : \A i \in missing : j <= i
               g == [f EXCEPT !.winning_moves = @ \o CachedWinners(cache, f, k),
                              !.next = k]
           IN stack' = Append([stack EXCEPT ![Len(stack)] = g],
                              Frame(Successor(f, k)))
  /\ UNCHANGED <<cache, returned, gameVars, enumVars, policyVars, cliVars>>

\* The innermost call finishes: no legal moves (lib.rs:148-155), or the
\* rest of the loop is served from the cache (lib.rs:158-170).  It inserts
\* its Evaluation and returns it to its caller.
EvaluateReturn ==
  /\ stack # <<>>
  /\ LET f == stack[Len(stack)]
         rest == SubSeq(stack, 1, Len(stack) - 1)
         eval == IF f.moves = <<>>
                 THEN TerminalEvaluation
                 ELSE Evaluation(f.winning_moves
                                 \o CachedWinners(cache, f, Len(f.moves) + 1))
     IN /\ Misses(cache, f) = {}
        /\ cache' = CacheInsert(cache, f.state, eval)
        /\ returned' = <<[state |-> f.state, eval |-> eval]>>
        /\ stack' = IF rest = <<>> THEN rest
                    ELSE [rest EXCEPT ![Len(rest)] = Resume(@, eval)]
  /\ UNCHANGED <<gameVars, enumVars, policyVars, cliVars>>

\* main.rs:165-172: the moves handle_play may submit once it holds the
\* Evaluation of the board.  With --row/--col any move; the model keeps to
\* the legal ones, the precondition of apply_move.
ExplicitChoices(state) == Range(legal_moves(state))

\* Mutant of WinningChoices: the first legal move is taken instead
WinningChoices_AnyLegal(eval, state) == Range(legal_moves(state))

\* main.rs:168-171: without --row/--col, a move out of eval.winning_moves
\* (the first one; an explicit --row/--col can name any of the others)
WinningChoices(eval, state) == Range(eval.winning_moves)

\* handle_play with --row/--col (main.rs:163-166): the board is evaluated,
\* then the given move is played whatever the Evaluation says.
PlayExplicit ==
  /\ turn = "player"
  /\ ~guided
  /\ stack = <<>>
  /\ returned # <<>> /\ returned[1].state = board
  /\ \E mv \in ExplicitChoices(board) : board' = apply_move(board, mv)
  /\ turn' = "opponent"
  /\ returned' = <<>>
  /\ UNCHANGED <<guided, cache, stack, enumVars, policyVars, cliVars>>

\* handle_play following the solver (main.rs:163-172): a move out of
\* winning_moves; none is played when the list is empty ("position is
\* losing").
PlayWinning ==
  /\ turn = "player"
  /\ stack = <<>>
  /\ returned # <<>> /\ returned[1].state = board
  /\ \E mv \in WinningChoices(returned[1].eval, board) :
        board' = apply_move(board, mv)
  /\ turn' = "opponent"
  /\ guided' = TRUE
  /\ returned' = <<>>
  /\ UNCHANGED <<cache, stack, enumVars, policyVars, cliVars>>

\* The opponent plays any legal move.
OpponentMove ==
  /\ turn = "opponent"
  /\ SolverReady
  /\ \E mv \in Range(legal_moves(board)) : board' = apply_move(board, mv)
  /\ turn' = "player"
  /\ returned' = <<>>
  /\ UNCHANGED <<guided, cache, stack, enumVars, policyVars, cliVars>>

Next ==
  \/ EvaluateCall
  \/ EvaluateDescend
  \/ EvaluateReturn
  \/ PlayExplicit
  \/ PlayWinning
  \/ OpponentMove

Spec == Init /\ [][Next]_vars

(***************************************************************************)
(* The game alone: legal moves applied to the board, nobody consulting the *)
(* solver                                                                  *)
(***************************************************************************)

\* A legal move (lib.rs:79-92) is applied (lib.rs:66-76) by the side to
\* move.
ApplyMove ==
  /\ \E mv \in Range(legal_moves(board)) : board' = apply_move(board, mv)
  /\ turn' = IF turn = "player" THEN "opponent" ELSE "player"
  /\ UNCHANGED <<guided, solverVars, enumVars, policyVars, cliVars>>

NextGame == ApplyMove

SpecGame == Init /\ [][NextGame]_vars

(***************************************************************************)
(* enumerate_states as a process of its own                                *)
(***************************************************************************)

\* lib.rs:176-180: `seen` and `queue` hold the start state
InitEnum ==
  /\ board = NewBoard
  /\ turn = "player"
  /\ guided = FALSE
  /\ cache = EmptyCache
  /\ stack = <<>>
  /\ returned = <<>>
  /\ seen = {NewBoard}
  /\ queue = <<NewBoard>>
  /\ states = <<>>
  /\ table = <<>>
  /\ build = "release"
  /\ input = <<>>
  /\ args = <<>>
  /\ chosen = <<>>
  /\ outcome = "idle"

\* lib.rs:182-189: one turn of `while let Some(state) = queue.pop_front()`
EnumStep ==
  /\ states = <<>>
  /\ queue # <<>>
  /\ LET state == Head(queue)
         fresh == Visit(seen, <<>>, state, legal_moves(state), 1)
     IN /\ seen' = seen \cup Range(fresh)
        /\ queue' = Tail(queue) \o fresh
  /\ UNCHANGED <<states, gameVars, solverVars, policyVars, cliVars>>

\* lib.rs:182 and 191: the queue is empty, the loop ends and `seen` is
\* collected into the result
EnumCollect ==
  /\ states = <<>>
  /\ queue = <<>>
  /\ states' = <<seen>>
  /\ UNCHANGED <<seen, queue, gameVars, solverVars, policyVars, cliVars>>

NextEnum == EnumStep \/ EnumCollect

SpecEnum == InitEnum /\ [][NextEnum]_vars

(***************************************************************************)
(* export_policy_json: every state of enumerate_states' result goes        *)
(* through one Solver, in the order the HashSet yields them.  The loop is  *)
(* followed over the states reachable from one close to the end of the     *)
(* game.                                                                   *)
(***************************************************************************)

\* How many of the last columns are still open in the state the explored
\* part of the loop starts from
StairWidth == 3

\* A reachable state close to the end of the game: the last StairWidth
\* columns are eaten down to rows ROWS-2, ROWS-3, ..., the others wholly
PolicyRoot ==
  [i \in 1..COLS |->
     IF i <= COLS - StairWidth THEN ROWS - 1
     ELSE ROWS - 1 - (i - (COLS - StairWidth))]

\* lib.rs:182-189 run to the end from a seen set and a queue: the states
\* the loop of enumerate_states collects from there on
RECURSIVE StatesAfter(_, _)
StatesAfter(sn, q) ==
  IF q = <<>> THEN sn
  ELSE LET fresh == Visit(sn, <<>>, Head(q), legal_moves(Head(q)), 1)
       IN StatesAfter(sn \cup Range(fresh), Tail(q) \o fresh)

\* The states of enumerate_states' result (lib.rs:191) from PolicyRoot on:
\* PolicyRoot and every state legal moves lead to from it
PolicyStates == StatesAfter({PolicyRoot}, <<PolicyRoot>>)

\* lib.rs:196-198: a new Solver, an empty table, and the states the loop
\* is about to go through
InitPolicy ==
  /\ board = NewBoard
  /\ turn = "player"
  /\ guided = FALSE
  /\ cache = EmptyCache
  /\ stack = <<>>
  /\ returned = <<>>
  /\ seen = {}
  /\ queue = <<>>
  /\ states = <<PolicyStates>>
  /\ table = <<>>
  /\ build = "release"
  /\ input = <<>>
  /\ args = <<>>
  /\ chosen = <<>>
  /\ outcome = "idle"

\* lib.rs:198-201: one turn of `for state in enumerate_states()`; the set
\* yields any state it has not yielded yet
PolicyStep ==
  /\ \E state \in states[1] :
        /\ HeightsKey(state) \notin DOMAIN table
        /\ LET done == evaluate(cache, state)
           IN /\ cache' = done.cache
              /\ table' = (HeightsKey(state) :> done.eval) @@ table
  /\ UNCHANGED <<stack, returned, gameVars, enumVars, cliVars>>

NextPolicy == PolicyStep

SpecPolicy == InitPolicy /\ [][NextPolicy]_vars

(***************************************************************************)
(* The command line client: suggest and play with --state (main.rs)        *)
(***************************************************************************)

\* i8 (lib.rs:41, main.rs:224)
I8Min == -128
I8Max == 127

\* main.rs:226, `s.trim().parse::<i8>()` on a text without blanks: <<n>>
\* when the text is the decimal form of an i8, <<>> when it is not
ParseI8(text) ==
  LET hits == {n \in I8Min..I8Max : ToString(n) = text}
  IN IF hits = {} THEN <<>> ELSE <<CHOOSE n \in hits : TRUE>>

\* parse_state (main.rs:223-238) up to the call of from_heights: the
\* values, or the error of the first check that fails
parse_state(raw) ==
  IF \E i \in 1..Len(raw) : ParseI8(raw[i]) = <<>>
  THEN [ok |-> FALSE, heights |-> <<>>, error |-> "invalid digit"]
  ELSE IF Len(raw) # COLS
       THEN [ok |-> FALSE, heights |-> <<>>, error |-> "expected columns"]
       ELSE [ok |-> TRUE, heights |-> [i \in 1..COLS |-> ParseI8(raw[i])[1]],
             error |-> ""]

\* BoardState::from_heights (lib.rs:53-58): the debug_assert is compiled
\* into debug builds only, where it panics on a height out of range
from_heights_panics(profile, heights) ==
  /\ profile = "debug"
  /\ \E i \in 1..Len(heights) : heights[i] \notin (-1)..(ROWS - 1)

\* resolve_state with --state (main.rs:213-214) and what becomes of it:
\* an error, a panic, or the BoardState handed on
resolve_state(profile, raw) ==
  LET parsed == parse_state(raw)
  IN IF ~parsed.ok THEN [outcome |-> "error", state |-> <<>>]
     ELSE IF from_heights_panics(profile, parsed.heights)
          THEN [outcome |-> "panic", state |-> <<>>]
          ELSE [outcome |-> "resolved", state |-> parsed.heights]

\* Mutant of to_zero_indexed_move: the coordinates are not shifted
to_zero_indexed_move_NoShift(row, col) ==
  IF row \notin 1..ROWS
  THEN [ok |-> FALSE, mv |-> <<>>, error |-> "row must be"]
  ELSE IF col \notin 1..COLS
       THEN [ok |-> FALSE, mv |-> <<>>, error |-> "column must be"]
       ELSE [ok |-> TRUE, mv |-> <<Move(row, col)>>, error |-> ""]

\* to_zero_indexed_move (main.rs:269-280)
to_zero_indexed_move(row, col) ==
  IF row \notin 1..ROWS
  THEN [ok |-> FALSE, mv |-> <<>>, error |-> "row must be"]
  ELSE IF col \notin 1..COLS
       THEN [ok |-> FALSE, mv |-> <<>>, error |-> "column must be"]
       ELSE [ok |-> TRUE, mv |-> <<Move(row - 1, col - 1)>>, error |-> ""]

\* Move::to_one_indexed (lib.rs:33-35)
to_one_indexed(mv) == <<mv.row + 1, mv.col + 1>>

\* How many of the last columns of --state vary
FreeColumns == 3

\* The texts a varying column of --state is drawn from
StateTexts == {"2", "3", "4", "5", "128", "x"}

\* --state values: the first columns wholly eaten, the last FreeColumns any
\* of the texts; and the same with a column missing or one too many
StateInputs ==
  LET full == {[i \in 1..(COLS - FreeColumns) |-> "4"] \o tail :
                  tail \in [1..FreeColumns -> StateTexts]}
  IN full \cup {Tail(raw) : raw \in full} \cup {<<"4">> \o raw : raw \in full}

\* --row/--col values tried with play: none, and some in and out of range
PlayArgs == {<<>>, <<1, 1>>, <<5, 7>>, <<0, 3>>, <<2, 9>>}

\* A command line call about to run, on a new Solver (main.rs:107, 156)
InitCli ==
  /\ board = NewBoard
  /\ turn = "player"
  /\ guided = FALSE
  /\ cache = EmptyCache
  /\ stack = <<>>
  /\ returned = <<>>
  /\ seen = {}
  /\ queue = <<>>
  /\ states = <<>>
  /\ table = <<>>
  /\ build \in {"debug", "release"}
  /\ input \in StateInputs
  /\ args \in PlayArgs
  /\ chosen = <<>>
  /\ outcome = "start"

\* handle_suggest (main.rs:106-148): the state is resolved and, unless that
\* failed, evaluated; the report is printed
HandleSuggest ==
  /\ outcome = "start"
  /\ args = <<>>
  /\ LET got == resolve_state(build, input)
     IN IF got.outcome # "resolved"
        THEN /\ outcome' = got.outcome
             /\ UNCHANGED <<board, cache, returned, chosen>>
        ELSE LET done == evaluate(cache, got.state)
             IN /\ board' = got.state
                /\ cache' = done.cache
                /\ returned' = <<[state |-> got.state, eval |-> done.eval]>>
                /\ chosen' = IF done.eval.winning_moves = <<>> THEN <<>>
                             ELSE <<Head(done.eval.winning_moves)>>
                /\ outcome' = "suggested"
  /\ UNCHANGED <<turn, guided, stack, enumVars, policyVars, build, input,
                 args>>

\* handle_play (main.rs:150-205): the state is resolved and evaluated, then
\* the move is the one of --row/--col or the first winning one
HandlePlay ==
  /\ outcome = "start"
  /\ LET got == resolve_state(build, input)
     IN IF got.outcome # "resolved"
        THEN /\ outcome' = got.outcome
             /\ UNCHANGED <<board, cache, returned, chosen>>
        ELSE LET done == evaluate(cache, got.state)
                 mv == IF args # <<>>
                       THEN to_zero_indexed_move(args[1], args[2]).mv
                       ELSE IF done.eval.winning_moves = <<>> THEN <<>>
                            ELSE <<Head(done.eval.winning_moves)>>
             IN /\ board' = got.state
                /\ cache' = done.cache
                /\ returned' = <<[state |-> got.state, eval |-> done.eval]>>
                /\ chosen' = mv
                /\ outcome' = IF mv = <<>> THEN "error" ELSE "played"
  /\ UNCHANGED <<turn, guided, stack, enumVars, policyVars, build, input,
                 args>>

NextCli == HandleSuggest \/ HandlePlay

SpecCli == InitCli /\ [][NextCli]_vars

(***************************************************************************)
(* to_zero_indexed_move applied to every pair of u8 arguments              *)
(***************************************************************************)

\* u8 (main.rs:269)
U8Max == 255

InitArgs ==
  /\ board = NewBoard
  /\ turn = "player"
  /\ guided = FALSE
  /\ cache = EmptyCache
  /\ stack = <<>>
  /\ returned = <<>>
  /\ seen = {}
  /\ queue = <<>>
  /\ states = <<>>
  /\ table = <<>>
  /\ build = "release"
  /\ input = <<>>
  /\ args \in (0..U8Max) \X (0..U8Max)
  /\ chosen = <<>>
  /\ outcome = "start"

\* main.rs:166: `to_zero_indexed_move(r, c)?`, the Move or the error text
ConvertArgs ==
  /\ outcome = "start"
  /\ LET got == to_zero_indexed_move(args[1], args[2])
     IN /\ chosen' = got.mv
        /\ outcome' = IF got.ok THEN "converted" ELSE got.error
  /\ UNCHANGED <<gameVars, solverVars, enumVars, policyVars, build, input,
                 args>>

NextArgs == ConvertArgs

SpecArgs == InitArgs /\ [][NextArgs]_vars

(***************************************************************************)
(* Properties                                                              *)
(***************************************************************************)

Columns == 0..(COLS - 1)

NonIncreasing(state) ==
  \A i \in Columns : \A j \in Columns :
     i < j => Height(state, i) >= Height(state, j)

HeightsInRange(state) ==
  \A col \in Columns : Height(state, col) \in (-1)..(ROWS - 1)

\* What solver.evaluate(state) returns when the state is cached
\* (lib.rs:143-145); the calls a finished loop made all are.
Cached(state) == state \in DOMAIN cache

\* C1: whenever evaluate returns for a state s, the returned `winning` is
\* true exactly if some legal move of s leads to a state that evaluate, on
\* the same solver, reports as not winning.
C1_WinningIffLosingSuccessor ==
  returned # <<>> =>
    LET s == returned[1].state
    IN returned[1].eval.winning <=>
         \E mv \in Range(legal_moves(s)) :
            /\ Cached(apply_move(s, mv))
            /\ ~cache[apply_move(s, mv)].winning

\* C1 witness: a call returned winning for a state the opening move leads
\* past, and a call returned not winning for a state that still has moves
C1_Witness ==
  /\ returned # <<>>
  /\ stack # <<>>
  /\ ~returned[1].eval.winning
  /\ ~is_terminal(returned[1].state)
  /\ \E s \in DOMAIN cache : cache[s].winning

\* C2: on a fresh Solver the fresh board evaluates to winning, with
\* winning_moves exactly <<(0, 1)>>.
C2_UniqueWinningOpening ==
  (returned # <<>> /\ returned[1].state = NewBoard) =>
    returned[1].eval = [winning |-> TRUE, winning_moves |-> <<Move(0, 1)>>]

C2_Witness ==
  /\ returned # <<>>
  /\ returned[1].state = NewBoard
  /\ stack = <<>>

\* tests::second_move_book_matches_notes (lib.rs:224-232)
AfterOpening == apply_move(NewBoard, Move(0, 1))

BookReplies ==
  {Move(1, 0), Move(0, 2), Move(2, 0), Move(3, 0), Move(4, 0)}

BookAnswer(reply) ==
  CASE reply = Move(1, 0) -> {Move(0, 4)}
    [] reply = Move(0, 2) -> {Move(3, 1)}
    [] reply = Move(2, 0) -> {Move(1, 2), Move(0, 3)}
    [] reply = Move(3, 0) -> {Move(2, 7)}
    [] reply = Move(4, 0) -> {Move(3, 5)}

\* C3: after the opening (0,1) and each of the five replies the state
\* evaluates to winning, and its winning moves are exactly those of the
\* book, each listed once.
C3_SecondMoveBook ==
  \A reply \in BookReplies :
    (returned # <<>> /\ returned[1].state = apply_move(AfterOpening, reply)) =>
      /\ returned[1].eval.winning
      /\ Range(returned[1].eval.winning_moves) = BookAnswer(reply)
      /\ Len(returned[1].eval.winning_moves) = Cardinality(BookAnswer(reply))

\* C3 witness: the game went (0,1), (2,0) and the solver was asked there
C3_Witness ==
  /\ board = apply_move(AfterOpening, Move(2, 0))
  /\ turn = "player"
  /\ stack = <<>>
  /\ returned # <<>>
  /\ returned[1].state = board

\* The number of cells eaten on a board
Eaten(state) ==
  Cardinality({cell \in (0..(ROWS - 1)) \X Columns :
                  cell[1] <= Height(state, cell[2])})

\* What is left of a game: twice the cells not yet eaten, plus one while
\* the solver has not been asked about the board
GuidedVariant ==
  2 * (ROWS * COLS - Eaten(board)) + (IF returned = <<>> THEN 1 ELSE 0)

\* C4: once the player follows winning_moves, the player is never to move
\* in a state without legal moves, and whenever the player has asked the
\* solver the answer is winning and holds a move to play; the game can stop
\* only with the opponent to move and no legal move left; and it does stop,
\* since every step lowers GuidedVariant, which never goes below zero (every
\* move eats at least one more cell).
C4_GuidedPlayWins ==
  /\ [](guided /\ turn = "player" =>
          /\ ~is_terminal(board)
          /\ (stack = <<>> /\ returned # <<>> =>
                /\ returned[1].eval.winning
                /\ returned[1].eval.winning_moves # <<>>))
  /\ [](guided => (turn = "opponent" /\ is_terminal(board)) \/ ENABLED Next)
  /\ [][guided => GuidedVariant' < GuidedVariant]_vars
  /\ [][board' # board => Eaten(board') > Eaten(board)]_vars
  /\ [](GuidedVariant >= 0)

C4_Witness == guided /\ turn = "opponent" /\ is_terminal(board)

\* C5: evaluate on a state without legal moves returns winning = FALSE and
\* no winning moves, on the first call (empty cache) and on later ones.
C5_TerminalLoses ==
  /\ (returned # <<>> /\ is_terminal(returned[1].state)) =>
       returned[1].eval = [winning |-> FALSE, winning_moves |-> <<>>]
  /\ (is_terminal(board) /\ Cached(board)) =>
       cache[board] = [winning |-> FALSE, winning_moves |-> <<>>]

\* C5 witness: the game is over and the solver, its cache full, is asked
C5_Witness ==
  /\ is_terminal(board)
  /\ stack = <<>>
  /\ returned # <<>>
  /\ returned[1].state = board
  /\ Cardinality(DOMAIN cache) > 1

\* C6: the heights of every reachable board are non-increasing and within
\* -1..ROWS-1, and every legal move leads to such a board again.
C6_HeightsNonIncreasing ==
  /\ NonIncreasing(board)
  /\ HeightsInRange(board)
  /\ \A mv \in Range(legal_moves(board)) :
        /\ NonIncreasing(apply_move(board, mv))
        /\ HeightsInRange(apply_move(board, mv))

\* C6 witness: a staircase of three different heights has been eaten
C6_Witness ==
  /\ Height(board, 0) > Height(board, 1)
  /\ Height(board, 1) > Height(board, COLS - 1)
  /\ Height(board, COLS - 1) >= 0

\* C7: the poison coordinate is never among the legal moves.
C7_PoisonNeverLegal == POISON \notin Range(legal_moves(board))

\* C7 witness: the poison cell is the only one left in its column while
\* other moves remain
C7_Witness == Height(board, COLS - 1) = ROWS - 2 /\ ~is_terminal(board)

\* C8: a reachable board without legal moves has every cell but the poison
\* one eaten, and the poison cell uneaten.
C8_TerminalOnlyPoisonLeft ==
  is_terminal(board) =>
    /\ \A r \in 0..(ROWS - 1) : \A c \in Columns :
          Move(r, c) # POISON => r <= Height(board, c)
    /\ ~(POISON.row <= Height(board, POISON.col))

C8_Witness == is_terminal(board) /\ turn = "player" /\ cache = EmptyCache

\* C9 as stated: once every column height has reached ROWS-2, the last
\* column included, no legal move remains.
C9_AllAtRowsMinus2NoMove ==
  (\A col \in Columns : Height(board, col) >= ROWS - 2)
    => legal_moves(board) = <<>>

\* C9 amended: once every column but the last has reached ROWS-1 and the
\* last column has reached ROWS-2, no legal move remains.
C9_OnlyPoisonLeftNoMove ==
  ((\A col \in 0..(COLS - 2) : Height(board, col) >= ROWS - 1)
     /\ Height(board, COLS - 1) >= ROWS - 2) => legal_moves(board) = <<>>

C9_Witness ==
  /\ \A col \in 0..(COLS - 2) : Height(board, col) = ROWS - 1
  /\ Height(board, COLS - 1) = ROWS - 2
  /\ turn = "opponent"

\* Every legal move of a state lowers no height and raises at least one
MovesRaise(state) ==
  \A mv \in Range(legal_moves(state)) :
    /\ \A col \in Columns :
          Height(apply_move(state, mv), col) >= Height(state, col)
    /\ \E col \in Columns :
          Height(apply_move(state, mv), col) > Height(state, col)

\* What enumerate_states still has to do: the height sequences not yet
\* seen, the states waiting in the queue, the final collect
EnumVariant ==
  (ROWS + 1) ^ COLS - Cardinality(seen) + Len(queue)
    + (IF states = <<>> THEN 1 ELSE 0)

\* C10: enumerate_states terminates.  Every legal move of every state it
\* takes off the queue lowers no height and raises at least one; every step
\* of the loop lowers EnumVariant, which never goes below zero; and with
\* the queue empty the function returns.
C10_EnumerateTerminates ==
  /\ [](queue # <<>> => MovesRaise(Head(queue)))
  /\ [][EnumVariant' < EnumVariant]_vars
  /\ [](EnumVariant >= 0)
  /\ [](queue = <<>> /\ states = <<>> => ENABLED EnumCollect)

C10_Witness == states # <<>> /\ queue = <<>> /\ Cardinality(states[1]) > 1

\* C11: the calls of evaluate in progress form a chain of consecutive legal
\* moves (each frame's state is the successor its caller's loop is at) along
\* which the number of eaten cells grows, and never more than ROWS*COLS - 1
\* of them are nested below the first call; in the game every move eats at
\* least one more cell and the poison cell is never eaten, so no more than
\* ROWS*COLS - 1 moves follow one another from the fresh board.
C11_DepthAtMostCellsMinusOne ==
  /\ [](/\ Len(stack) - 1 <= ROWS * COLS - 1
        /\ \A i \in 1..(Len(stack) - 1) :
              /\ stack[i].next \in 1..Len(stack[i].moves)
              /\ stack[i + 1].state = Successor(stack[i], stack[i].next)
              /\ Eaten(stack[i + 1].state) > Eaten(stack[i].state))
  /\ [](Eaten(board) <= ROWS * COLS - 1)
  /\ [][board' # board => Eaten(board') >= Eaten(board) + 1]_vars

\* C11 witness: ROWS*COLS - 1 calls are nested below the first one
C11_Witness ==
  /\ Len(stack) - 1 = ROWS * COLS - 1
  /\ stack[1].state = NewBoard
  /\ is_terminal(stack[Len(stack)].state)

\* What a fresh Solver returns for the state, asked about it alone
FreshEvaluation(state) == evaluate(EmptyCache, state).eval

\* C12: in whatever order the states have gone through the shared Solver,
\* the table maps each of them to the Evaluation a fresh Solver returns for
\* that state alone (same flag, same moves in the same order), the cache of
\* the shared Solver holds nothing else either, and no two states share a
\* key: the table is the same on every run.
C12_PolicyTableDeterministic ==
  /\ \A state \in states[1] :
        HeightsKey(state) \in DOMAIN table =>
          table[HeightsKey(state)] = FreshEvaluation(state)
  /\ \A state \in DOMAIN cache : cache[state] = FreshEvaluation(state)
  /\ DOMAIN table \subseteq {HeightsKey(state) : state \in states[1]}
  /\ Cardinality({HeightsKey(state) : state \in states[1]})
       = Cardinality(states[1])

\* C12 witness: every state has gone through the Solver, among them one
\* that wins with three moves and one that loses with moves left
C12_Witness ==
  /\ \A state \in states[1] : HeightsKey(state) \in DOMAIN table
  /\ \E state \in states[1] :
        /\ table[HeightsKey(state)].winning
        /\ Len(table[HeightsKey(state)].winning_moves) >= 3
  /\ \E state \in states[1] :
        ~table[HeightsKey(state)].winning /\ ~is_terminal(state)

\* The heights --state spells, when parse_state accepts it
InputHeights == parse_state(input).heights

\* solver.evaluate has been called on the state the call resolved
EvaluateCalled == returned # <<>>

\* C13 as stated: a --state whose heights are out of -1..ROWS-1 or not
\* non-increasing ends the call with an error, and evaluate is not called
\* on it.
C13_InvalidStateRejected ==
  (/\ outcome # "start"
   /\ parse_state(input).ok
   /\ ~(HeightsInRange(InputHeights) /\ NonIncreasing(InputHeights)))
    => outcome = "error" /\ ~EvaluateCalled

\* C14: to_zero_indexed_move(row, col) gives a Move exactly when row is in
\* 1..ROWS and col in 1..COLS, and to_one_indexed of that Move is
\* (row, col) again; otherwise it gives the row error when the row is out
\* of range, and the column error when only the column is.
C14_ZeroIndexedMoveRoundTrip ==
  outcome # "start" =>
    LET row == args[1]
        col == args[2]
    IN /\ outcome = "converted" <=> (row \in 1..ROWS /\ col \in 1..COLS)
       /\ outcome = "converted" =>
            /\ chosen # <<>>
            /\ to_one_indexed(chosen[1]) = <<row, col>>
       /\ row \notin 1..ROWS => outcome = "row must be" /\ chosen = <<>>
       /\ (row \in 1..ROWS /\ col \notin 1..COLS) =>
            outcome = "column must be" /\ chosen = <<>>

\* C14 witness: the largest row and column were converted
C14_Witness ==
  /\ outcome = "converted"
  /\ args = <<ROWS, COLS>>
  /\ chosen = <<POISON>>

Max(a, b) == IF a >= b THEN a ELSE b

\* C15: for the board s of every reachable position and every legal move
\* (row, col), apply_move gives the height max(s.heights[c], row) to each
\* column c <= col and leaves each column c > col as it was, so no height is
\* lowered; and a step of the game changes the board to just that, the board
\* moved from being what the step started with.
C15_ApplyMoveFrame ==
  /\ [](\A mv \in Range(legal_moves(board)) :
          LET next == apply_move(board, mv)
          IN /\ DOMAIN next = DOMAIN board
             /\ \A c \in Columns :
                  /\ c <= mv.col =>
                       Height(next, c) = Max(Height(board, c), mv.row)
                  /\ c > mv.col => Height(next, c) = Height(board, c)
                  /\ Height(next, c) >= Height(board, c))
  /\ [][\E mv \in Range(legal_moves(board)) :
          \A c \in Columns :
            Height(board', c) = IF c <= mv.col
                                THEN Max(Height(board, c), mv.row)
                                ELSE Height(board, c)]_vars

\* C15 witness: a board with a legal move that raises one column, passes
\* over a higher one to its left and leaves a lower one to its right alone
C15_Witness ==
  \E mv \in Range(legal_moves(board)) :
    /\ \E c \in Columns : c < mv.col /\ Height(board, c) > mv.row
    /\ \E c \in Columns : c > mv.col /\ Height(board, c) < mv.row - 1
    /\ Height(apply_move(board, mv), mv.col) > Height(board, mv.col)

\* The cells a player may take: not eaten, not the poison one
OpenCells(state) ==
  {mv \in {Move(r, c) : r \in 0..(ROWS - 1), c \in Columns} :
     Height(state, mv.col) < mv.row /\ mv # POISON}

\* C16: legal_moves of a reachable board lists exactly the cells above the
\* height of their column up to row ROWS-1, the poison cell left out, each
\* once, by ascending column and within a column by ascending row.
C16_LegalMovesExactOrdered ==
  LET moves == legal_moves(board)
  IN /\ Range(moves) = OpenCells(board)
     /\ Len(moves) = Cardinality(OpenCells(board))
     /\ \A i \in 1..Len(moves) : \A j \in 1..Len(moves) :
          i < j => \/ moves[i].col < moves[j].col
                   \/ /\ moves[i].col = moves[j].col
                      /\ moves[i].row < moves[j].row

\* C16 witness: a staircase board with a column wholly eaten, a column
\* partly eaten and the poison column untouched
C16_Witness ==
  /\ Height(board, 0) = ROWS - 1
  /\ \E c \in Columns : Height(board, c) \in 0..(ROWS - 2)
  /\ Height(board, COLS - 1) = -1
  /\ Len(legal_moves(board)) = ROWS * COLS - 1 - Eaten(board)

\* C17: whenever evaluate returns for a state, winning_moves is the
\* subsequence of the state's legal moves, in their order and so each once,
\* made of the moves whose successor the same solver holds as not winning
\* (every successor is cached by then); and it is empty exactly when
\* `winning` is false.
C17_WinningMovesSubsequence ==
  returned # <<>> =>
    LET s == returned[1].state
        eval == returned[1].eval
    IN /\ \A mv \in Range(legal_moves(s)) : Cached(apply_move(s, mv))
       /\ eval.winning_moves =
            SelectSeq(legal_moves(s),
                      LAMBDA mv : ~cache[apply_move(s, mv)].winning)
       /\ eval.winning_moves = <<>> <=> ~eval.winning

\* C17 witness: a call returned two winning moves or more for a state some
\* of whose legal moves are not winning
C17_Witness ==
  /\ returned # <<>>
  /\ Len(returned[1].eval.winning_moves) >= 2
  /\ Len(returned[1].eval.winning_moves) < Len(legal_moves(returned[1].state))
  /\ stack # <<>>

\* The successors of a state by its legal moves
Successors(state) ==
  {apply_move(state, mv) : mv \in Range(legal_moves(state))}

\* C18: the collection enumerate_states returns is the seen set, which holds
\* the fresh board and, with every state, its successors by every legal
\* move; a state enters the seen set only as a successor of the state taken
\* off the queue, itself seen, so nothing unreachable is in it; and a state
\* is put on the queue only when it was not seen before, so none is listed
\* or visited twice.
C18_EnumerateExactlyReachable ==
  /\ [](states # <<>> =>
          /\ states[1] = seen
          /\ NewBoard \in states[1]
          /\ \A s \in states[1] : Successors(s) \subseteq states[1])
  /\ [](/\ NewBoard \in seen
        /\ Range(queue) \subseteq seen
        /\ Cardinality(Range(queue)) = Len(queue))
  /\ [][seen' # seen =>
          /\ queue # <<>>
          /\ seen' \subseteq seen \cup Successors(Head(queue))]_vars
  /\ [][\A i \in Len(queue)..Len(queue') :
          i >= 1 => queue'[i] \notin seen /\ queue'[i] \in seen']_vars

\* C18 witness: the collection was returned, with the fresh board, the
\* board that has only the poison cell left and a thousand others
C18_Witness ==
  /\ states # <<>>
  /\ NewBoard \in states[1]
  /\ \E s \in states[1] : is_terminal(s)
  /\ Cardinality(states[1]) > 1000

\* C19: a call of evaluate that changes the cache adds one entry, for a
\* state that had none, with the Evaluation it returns, and leaves every
\* other entry as it was; a call on a cached state returns the entry and
\* leaves the cache alone; and what a call returns for a state is what the
\* cache holds for it from then on, the Evaluation of its first call.
C19_CacheWrittenOnce ==
  /\ [][cache' # cache =>
          /\ stack # <<>>
          /\ LET s == stack[Len(stack)].state
             IN /\ s \notin DOMAIN cache
                /\ DOMAIN cache' = DOMAIN cache \cup {s}
                /\ \A t \in DOMAIN cache : cache'[t] = cache[t]
                /\ returned' # <<>>
                /\ returned'[1] = [state |-> s, eval |-> cache'[s]]]_vars
  /\ [][(stack = <<>> /\ board \in DOMAIN cache /\ returned' # returned
           /\ returned' # <<>>) =>
          /\ returned'[1] = [state |-> board, eval |-> cache[board]]
          /\ cache' = cache]_vars
  /\ [](returned # <<>> =>
          /\ Cached(returned[1].state)
          /\ cache[returned[1].state] = returned[1].eval)

\* C19 witness: the solver, its cache full, was asked again about a board
\* reached by two moves and returned a winning Evaluation from the cache
C19_Witness ==
  /\ stack = <<>>
  /\ returned # <<>>
  /\ returned[1].state = board
  /\ Eaten(board) >= 2
  /\ returned[1].eval.winning
  /\ Cardinality(DOMAIN cache) > 1000

\* The non-increasing sequences of n heights, none above `top` and none
\* below -1
RECURSIVE Staircases(_, _)
Staircases(n, top) ==
  IF n = 0 THEN {<<>>}
  ELSE UNION {{<<h>> \o rest : rest \in Staircases(n - 1, h)} :
                h \in (-1)..top}

\* The staircases of COLS heights up to ROWS-1 whose poison cell is not
\* eaten
StaircaseBoards ==
  {state \in Staircases(COLS, ROWS - 1) : Height(state, COLS - 1) <= ROWS - 2}

\* The board with every cell eaten but the poison one
OnlyPoisonLeft ==
  [i \in 1..COLS |-> IF i = COLS THEN ROWS - 2 ELSE ROWS - 1]

\* C20: the states enumerate_states collects, which are the reachable ones,
\* are exactly the non-increasing sequences of 8 heights over -1..4 whose
\* last height is at most 3; there are 1286 of them, and the only one
\* without a legal move is [4,4,4,4,4,4,4,3].
C20_ReachableAreStaircases ==
  /\ seen \subseteq StaircaseBoards
  /\ states # <<>> =>
       /\ states[1] = StaircaseBoards
       /\ Cardinality(states[1]) = 1286
       /\ {s \in states[1] : is_terminal(s)} = {OnlyPoisonLeft}
       /\ OnlyPoisonLeft = <<4, 4, 4, 4, 4, 4, 4, 3>>

\* C20 witness: the enumeration is over and holds the board with only the
\* poison cell left, the board with all heights ROWS-2 and the state the
\* policy loop is followed from
C20_Witness ==
  /\ states # <<>>
  /\ OnlyPoisonLeft \in states[1]
  /\ [i \in 1..COLS |-> ROWS - 2] \in states[1]
  /\ PolicyRoot \in states[1]

====
